---- MODULE Spec2Model ----
(***************************************************************************)
(* Multisignature wallet front end: the TransactionsList component (its    *)
(* signTransaction and sendTransaction handlers and the action it offers   *)
(* per proposal), the update-wallet-deployed route, and the two server     *)
(* pieces the component calls that live outside src/ (create-signature     *)
(* and fetch-transactions), modelled from the design specification.        *)
(***************************************************************************)
EXTENDS Integers, Sequences, FiniteSets, TLC

\* ------------------------------------------------------------------ bounds
NumProposals == 1
NumSubmitProposals == 2
MaxHash == 2

\* ---------------------------------------------------------------- constants
\* The wallet's stored signer order; stored in lower case, which is what the
\* component's lookup pendingSigners.includes(address.toLowerCase()) relies on.
WalletSigners == <<"0xa", "0xb">>
SignerSet == {WalletSigners[i] : i \in 1..Len(WalletSigners)}

\* Addresses an account can have: "0xA" is the checksum form of the signer
\* "0xa", "0xb" a signer whose address has no letter to capitalise, "0xc" an
\* address that is no signer of the wallet.
ViewerAddresses == {"0xA", "0xb", "0xc"}
\* The browser sessions, one per signer, named by the connected account
Clients == {"0xA", "0xb"}

toLowerCase(a) == IF a = "0xA" THEN "0xa" ELSE a

\* Signature bytes: who produced them, over which proposal's operation hash,
\* and a salt (a key can produce more than one valid signature of a hash).
SigSalts == {1, 2}

NoHash == << >>
Hash(n) == <<"0xhash", n>>
EmptyInitCode == << >>
\* userOp.initCode as stored with proposal p when it was created
StoredInitCode(p) == <<"initCode", p>>

NoRequest == [tx |-> 0, orderedSignatures |-> << >>, initCode |-> EmptyInitCode,
              txHash |-> NoHash]
NoSig == [by |-> "-", op |-> 0, salt |-> 0]

VARIABLES
    isDeployed,     \* wallet.isDeployed in the database
    signatures,     \* per proposal: the recorded signatures, in arrival order
    txHash,         \* per proposal: the recorded transaction hash, or NoHash
    nextHash,       \* the next transaction hash the bundler will produce
    returned,       \* history: <<proposal, hash>> pairs the bundler returned
    walletTxns,     \* per client (prop `address`): the loaded list (state `walletTxns`)
    pc,             \* per client: where its sendTransaction call stands
    req,            \* per client: what its sendTransaction call carries
    event           \* the handler step just taken and its result

vars == <<isDeployed, signatures, txHash, nextHash, returned,
          walletTxns, pc, req, event>>

Proposals == DOMAIN signatures
\* The signature bytes a request for proposal p is sent with
SigBytes(p) == [by : SignerSet, op : {p}, salt : SigSalts]

\* -------------------------------------------------------- pure functions
SignedBy(sigs) == {sigs[i].signerAddress : i \in 1..Len(sigs)}

\* fetch-transactions: pendingSigners = the signers with no recorded signature
PendingSigners(sigs) ==
    SelectSeq(WalletSigners, LAMBDA s : s \notin SignedBy(sigs))

\* One element of the list the component loads (TransactionWithSignatures)
TransactionView(p) ==
    [id |-> p,
     signatures |-> signatures[p],
     pendingSigners |-> PendingSigners(signatures[p]),
     txHash |-> txHash[p],
     initCode |-> StoredInitCode(p),
     wallet |-> [signers |-> WalletSigners, isDeployed |-> isDeployed]]

Includes(seq, x) == \E i \in 1..Len(seq) : seq[i] = x

\* Mutant: the pending-signer test comes before the txHash test
OfferedAction_PendingFirst(t, addr) ==
    IF Len(t.pendingSigners) = 0 THEN "execute"
    ELSE IF t.txHash # NoHash THEN "view"
    ELSE IF Includes(t.pendingSigners, toLowerCase(addr)) THEN "sign"
    ELSE "none"

\* Mutant: Execute is offered while one signer is still pending
OfferedAction_OneMissing(t, addr) ==
    IF t.txHash # NoHash THEN "view"
    ELSE IF Len(t.pendingSigners) <= 1 THEN "execute"
    ELSE IF Includes(t.pendingSigners, toLowerCase(addr)) THEN "sign"
    ELSE "none"

\* The button rendered for a transaction
OfferedAction(t, addr) ==
    IF t.txHash # NoHash THEN "view"
    ELSE IF Len(t.pendingSigners) = 0 THEN "execute"
    ELSE IF Includes(t.pendingSigners, toLowerCase(addr)) THEN "sign"
    ELSE "none"

\* The signature verifier: the bytes were produced by signer's key over the
\* operation hash of proposal p.
VerifySignature(p, signer, sig) == sig.by = signer /\ sig.op = p

\* Mutant: no test for a signature already recorded for the signer
RecordSignatureResult_NoDuplicateTest(p, signerAddress, sig) ==
    LET signer == toLowerCase(signerAddress) IN
    IF signer \notin SignerSet THEN "UnknownSigner"
    ELSE IF ~VerifySignature(p, signer, sig) THEN "InvalidSignature"
    ELSE "ok"

\* Mutant: no test that the signer belongs to the wallet
RecordSignatureResult_NoSignerTest(p, signerAddress, sig) ==
    LET signer == toLowerCase(signerAddress) IN
    IF signer \in SignedBy(signatures[p]) THEN "DuplicateSignature"
    ELSE IF ~VerifySignature(p, signer, sig) THEN "InvalidSignature"
    ELSE "ok"

\* recordSignature (create-signature): the result of a request
RecordSignatureResult(p, signerAddress, sig) ==
    LET signer == toLowerCase(signerAddress) IN
    IF signer \notin SignerSet THEN "UnknownSigner"
    ELSE IF signer \in SignedBy(signatures[p]) THEN "DuplicateSignature"
    ELSE IF ~VerifySignature(p, signer, sig) THEN "InvalidSignature"
    ELSE "ok"

\* The signatures matched to one signer, in the order they are stored
MatchedTo(sigs, signer) ==
    LET hit == SelectSeq(sigs, LAMBDA s : s.signerAddress = signer)
    IN  [i \in 1..Len(hit) |-> hit[i].signature]

RECURSIVE OrderFrom(_, _, _)
OrderFrom(signers, sigs, i) ==
    IF i > Len(signers) THEN << >>
    ELSE MatchedTo(sigs, signers[i]) \o OrderFrom(signers, sigs, i + 1)

\* Mutant: the signatures are pushed in the order they were recorded
OrderedSignatures_ArrivalOrder(t) ==
    [i \in 1..Len(t.signatures) |-> t.signatures[i].signature]

\* sendTransaction: signers in the outer loop, signatures in the inner loop
OrderedSignatures(t) == OrderFrom(t.wallet.signers, t.signatures, 1)

\* Mutant: the length test is dropped
QuorumCheckFails_Never(ordered, t) == FALSE

\* sendTransaction: orderedSignatures.length != transaction.wallet.signers.length
QuorumCheckFails(ordered, t) == Len(ordered) # Len(t.wallet.signers)

\* Mutant: the stored initCode is sent whatever the deployed flag says
InitCodeFor_Stored(t) == t.initCode

\* sendTransaction: the initCode handed to the builder
InitCodeFor(t) == IF t.wallet.isDeployed THEN EmptyInitCode ELSE t.initCode

\* ------------------------------------------------------------------ state
Ev(op, c, p, a, s, r) ==
    [op |-> op, client |-> c, tx |-> p, addr |-> a, sig |-> s, result |-> r]

InitWith(proposals, sigs) ==
    /\ isDeployed = FALSE
    /\ signatures = sigs
    /\ txHash = [p \in proposals |-> NoHash]
    /\ nextHash = 1
    /\ returned = {}
    /\ walletTxns = [c \in Clients |-> << >>]
    /\ pc = [c \in Clients |-> "idle"]
    /\ req = [c \in Clients |-> NoRequest]
    /\ event = Ev("init", "-", 0, "-", NoSig, "-")

\* A wallet not yet deployed and its proposals, just created
Init == InitWith(1..NumProposals, [p \in 1..NumProposals |-> << >>])

\* fetchTransactions, run on mount (after every reload)
FetchTransactions(c) ==
    /\ pc[c] = "idle"
    /\ walletTxns' = [walletTxns EXCEPT ![c] = [p \in Proposals |-> TransactionView(p)]]
    /\ event' = Ev("fetch", c, 0, c, NoSig, "ok")
    /\ UNCHANGED <<isDeployed, signatures, txHash, nextHash, returned, pc, req>>

SignResults == {"ok", "UnknownSigner", "DuplicateSignature", "InvalidSignature"}

\* create-signature: appends the signature when the request is accepted
RecordSignature(p, signerAddress, sig, result) ==
    /\ result = RecordSignatureResult(p, signerAddress, sig)
    /\ signatures' =
         IF result = "ok"
         THEN [signatures EXCEPT ![p] =
                 Append(@, [signerAddress |-> toLowerCase(signerAddress),
                            signature |-> sig])]
         ELSE signatures

\* walletClient.signMessage: the connected account signs the operation hash
SignMessage(account, p) == [by |-> toLowerCase(account), op |-> p, salt |-> 1]

\* signTransaction, reached from the Sign Txn button
SignTransaction(c, p) ==
    /\ pc[c] = "idle"
    /\ p \in DOMAIN walletTxns[c]
    /\ OfferedAction(walletTxns[c][p], c) = "sign"
    /\ \E result \in SignResults :
         LET sig == SignMessage(c, walletTxns[c][p].id) IN
         /\ RecordSignature(walletTxns[c][p].id, c, sig, result)
         /\ event' = Ev("sign", c, p, c, sig, result)
         \* success: window.location.reload(); failure: alert, list kept
         /\ walletTxns' = IF result = "ok" THEN [walletTxns EXCEPT ![c] = << >>]
                          ELSE walletTxns
    /\ UNCHANGED <<isDeployed, txHash, nextHash, returned, pc, req>>

\* sign(proposalId, signerAddress, signature) called on the endpoint directly
SignRequest(p, signerAddress, sig) ==
    /\ \E result \in SignResults :
         /\ RecordSignature(p, signerAddress, sig, result)
         /\ event' = Ev("sign", "api", p, signerAddress, sig, result)
    /\ UNCHANGED <<isDeployed, txHash, nextHash, returned, walletTxns, pc, req>>

\* sendTransaction up to the call of the bundler
SendTransaction(c, p) ==
    /\ pc[c] = "idle"
    /\ p \in DOMAIN walletTxns[c]
    /\ LET t == walletTxns[c][p]
           ordered == OrderedSignatures(t)
       IN  IF QuorumCheckFails(ordered, t)
           THEN /\ event' = Ev("send", c, p, c, NoSig, "IncompleteQuorum")
                /\ UNCHANGED <<pc, req>>
           ELSE /\ pc' = [pc EXCEPT ![c] = "sending"]
                /\ req' = [req EXCEPT ![c] =
                             [tx |-> t.id, orderedSignatures |-> ordered,
                              initCode |-> InitCodeFor(t), txHash |-> NoHash]]
                /\ event' = Ev("send", c, p, c, NoSig, "handed")
    /\ UNCHANGED <<isDeployed, signatures, txHash, nextHash, returned, walletTxns>>

\* The Execute Txn button
ClickExecute(c, p) ==
    /\ p \in DOMAIN walletTxns[c]
    /\ OfferedAction(walletTxns[c][p], c) = "execute"
    /\ SendTransaction(c, p)

\* client.sendUserOperation or result.wait throws: the catch block
BundlerThrows(c) ==
    /\ pc[c] = "sending"
    /\ pc' = [pc EXCEPT ![c] = "idle"]
    /\ req' = [req EXCEPT ![c] = NoRequest]
    /\ event' = Ev("bundler", c, req[c].tx, c, NoSig, "SubmissionFailed")
    /\ UNCHANGED <<isDeployed, signatures, txHash, nextHash, returned, walletTxns>>

\* The operation is mined: the receipt carries its transaction hash
BundlerReturns(c) ==
    /\ pc[c] = "sending"
    /\ nextHash <= MaxHash
    /\ nextHash' = nextHash + 1
    /\ returned' = returned \cup {<<req[c].tx, Hash(nextHash)>>}
    /\ pc' = [pc EXCEPT ![c] = "posting"]
    /\ req' = [req EXCEPT ![c].txHash = Hash(nextHash)]
    /\ event' = Ev("bundler", c, req[c].tx, c, NoSig, "hash")
    /\ UNCHANGED <<isDeployed, signatures, txHash, walletTxns>>

\* result.wait() resolves to null: txHash is undefined
BundlerTimesOut(c) ==
    /\ pc[c] = "sending"
    /\ pc' = [pc EXCEPT ![c] = "posting"]
    /\ event' = Ev("bundler", c, req[c].tx, c, NoSig, "null")
    /\ UNCHANGED <<isDeployed, signatures, txHash, nextHash, returned, walletTxns, req>>

PostOutcomes == {"ok", "WalletUpdateFailed", "TransactionUpdateFailed"}

\* POST /api/update-wallet-deployed: wallet.update, then transaction.update;
\* an undefined txHash leaves the column as it is. The component does not
\* read the response: it alerts success and reloads.
UpdateWalletDeployed(c, outcome) ==
    /\ pc[c] = "posting"
    /\ isDeployed' = IF outcome = "WalletUpdateFailed" THEN isDeployed ELSE TRUE
    /\ txHash' = IF outcome = "ok" /\ req[c].txHash # NoHash
                 THEN [txHash EXCEPT ![req[c].tx] = req[c].txHash]
                 ELSE txHash
    /\ pc' = [pc EXCEPT ![c] = "idle"]
    /\ req' = [req EXCEPT ![c] = NoRequest]
    /\ walletTxns' = [walletTxns EXCEPT ![c] = << >>]
    /\ event' = Ev("post", c, req[c].tx, c, NoSig, outcome)
    /\ UNCHANGED <<signatures, nextHash, returned>>

\* fetch("/api/update-wallet-deployed") rejects: the catch block, no reload
PostNotSent(c) ==
    /\ pc[c] = "posting"
    /\ pc' = [pc EXCEPT ![c] = "idle"]
    /\ req' = [req EXCEPT ![c] = NoRequest]
    /\ event' = Ev("post", c, req[c].tx, c, NoSig, "NetworkError")
    /\ UNCHANGED <<isDeployed, signatures, txHash, nextHash, returned, walletTxns>>

Submission ==
    \/ \E c \in Clients : BundlerThrows(c)
    \/ \E c \in Clients : BundlerReturns(c)
    \/ \E c \in Clients : BundlerTimesOut(c)
    \/ \E c \in Clients, o \in PostOutcomes : UpdateWalletDeployed(c, o)
    \/ \E c \in Clients : PostNotSent(c)

\* The component as a user drives it
Next ==
    \/ \E c \in Clients : FetchTransactions(c)
    \/ \E c \in Clients, p \in Proposals : SignTransaction(c, p)
    \/ \E c \in Clients, p \in Proposals : ClickExecute(c, p)
    \/ Submission

Spec == Init /\ [][Next]_vars

\* Signing only, with the endpoint also called directly with any input
NextSign ==
    \/ \E c \in Clients : FetchTransactions(c)
    \/ \E c \in Clients, p \in Proposals : SignTransaction(c, p)
    \/ \E p \in Proposals, a \in ViewerAddresses : \E s \in SigBytes(p) : SignRequest(p, a, s)

SpecSign == Init /\ [][NextSign]_vars

\* sendTransaction called on any loaded transaction, whatever button it shows
NextCall ==
    \/ \E c \in Clients : FetchTransactions(c)
    \/ \E c \in Clients, p \in Proposals : SignTransaction(c, p)
    \/ \E c \in Clients, p \in Proposals : SendTransaction(c, p)
    \/ Submission

SpecCall == Init /\ [][NextCall]_vars

\* Submission only: several proposals of one wallet, each signed by every
\* signer, in any arrival order
SignedInOrder(p, order) ==
    [i \in 1..Len(order) |->
        [signerAddress |-> order[i], signature |-> SignMessage(order[i], p)]]

ArrivalOrders == {<<WalletSigners[1], WalletSigners[2]>>, <<WalletSigners[2], WalletSigners[1]>>}

InitSubmit ==
    \E o \in [1..NumSubmitProposals -> ArrivalOrders] :
        InitWith(1..NumSubmitProposals,
                 [p \in 1..NumSubmitProposals |-> SignedInOrder(p, o[p])])

NextSubmit ==
    \/ \E c \in Clients : FetchTransactions(c)
    \/ \E c \in Clients, p \in Proposals : ClickExecute(c, p)
    \/ Submission

SpecSubmit == InitSubmit /\ [][NextSubmit]_vars

\* ----------------------------------------------------------------- claims
\* Every view of a proposal there is: the one a fetch would return now, and
\* the ones the clients hold.
Views ==
    {TransactionView(p) : p \in Proposals}
    \cup UNION {{walletTxns[c][p] : p \in DOMAIN walletTxns[c]} : c \in Clients}

\* Exactly the wallet's signers have each recorded exactly one valid signature
OneValidSignatureEach(t) ==
    /\ \A s \in SignerSet :
         Cardinality({i \in 1..Len(t.signatures) : t.signatures[i].signerAddress = s}) = 1
    /\ \A i \in 1..Len(t.signatures) :
         /\ t.signatures[i].signerAddress \in SignerSet
         /\ VerifySignature(t.id, t.signatures[i].signerAddress, t.signatures[i].signature)

\* The signature bytes the database holds for signer s on proposal p
RecordedSignature(p, s) ==
    LET i == CHOOSE j \in 1..Len(signatures[p]) : signatures[p][j].signerAddress = s
    IN  signatures[p][i].signature

InFlight(c) == pc[c] \in {"sending", "posting"}

\* C1: whenever sendTransaction has handed a proposal to the bundler, the
\* ordered signature sequence it built has one element per signer of the
\* wallet, and its i-th element is the signature recorded by the i-th signer
\* of the stored signer order, in whatever order the signatures arrived.
C1_OrderedBySignerOrder ==
    \A c \in Clients :
        InFlight(c) =>
            /\ Len(req[c].orderedSignatures) = Len(WalletSigners)
            /\ \A i \in 1..Len(WalletSigners) :
                 req[c].orderedSignatures[i] = RecordedSignature(req[c].tx, WalletSigners[i])

\* C1 witness: a proposal whose signatures arrived in the reverse of the
\* signer order has been handed to the bundler
C1_Witness ==
    \E c \in Clients :
        /\ pc[c] = "sending"
        /\ signatures[req[c].tx][1].signerAddress = WalletSigners[2]
        /\ signatures[req[c].tx][2].signerAddress = WalletSigners[1]

\* C2: once a txHash is recorded against a proposal, a later submit attempt
\* for it fails with AlreadySubmitted, is not handed to the bundler, and the
\* recorded txHash never changes.
C2_SubmittedOnce ==
    [][ /\ \A p \in Proposals : txHash[p] # NoHash => txHash'[p] = txHash[p]
        /\ \A c \in Clients :
             (event'.op = "send" /\ event'.client = c /\ txHash[event'.tx] # NoHash)
                => /\ event'.result = "AlreadySubmitted"
                   /\ pc'[c] = "idle"
      ]_vars

\* The step just taken is a submit failing: the bundler threw, or the result
\* was not persisted in full
SubmitFailed(e) ==
    \/ e.op = "bundler" /\ e.result = "SubmissionFailed"
    \/ e.op = "post" /\ e.result \in {"WalletUpdateFailed", "TransactionUpdateFailed", "NetworkError"}

\* C4: a submit that fails, at the bundler or while the result is persisted,
\* leaves every txHash and the wallet's deployed flag as they were, so the
\* proposal stays Executable.
C4_FailedSubmitCommitsNothing ==
    [][ SubmitFailed(event') => (txHash' = txHash /\ isDeployed' = isDeployed) ]_vars

\* C8: the wallet is marked deployed, and a proposal carries a txHash, only
\* when the bundler has returned a transaction hash; a recorded txHash is a
\* hash the bundler returned for that proposal.
C8_HashBeforePersist ==
    /\ isDeployed => returned # {}
    /\ \A p \in Proposals : txHash[p] # NoHash => <<p, txHash[p]>> \in returned

\* C3 as stated: in every view, for every viewing address, the proposal is
\* executable (no pending signer and Execute offered) exactly when the
\* recorded signatures are one valid signature from each signer and no other.
C3_ExecutableIffAllSigned ==
    \A t \in Views, a \in ViewerAddresses :
        (Len(t.pendingSigners) = 0 /\ OfferedAction(t, a) = "execute")
            <=> OneValidSignatureEach(t)

\* C3 amended: the pending-signer set is empty exactly when the recorded
\* signatures are one valid signature from each signer and no other, and
\* Execute is offered exactly when, besides, no txHash is recorded.
C3_ExecutableIffAllSignedUnsubmitted ==
    \A t \in Views, a \in ViewerAddresses :
        /\ Len(t.pendingSigners) = 0 <=> OneValidSignatureEach(t)
        /\ OfferedAction(t, a) = "execute"
             <=> (OneValidSignatureEach(t) /\ t.txHash = NoHash)

\* C3 witness: a proposal signed by every signer, the second signer first,
\* is offered for execution
C3_Witness ==
    \E p \in Proposals :
        /\ OfferedAction(TransactionView(p), "0xc") = "execute"
        /\ Len(signatures[p]) = Len(WalletSigners)
        /\ signatures[p][1].signerAddress = WalletSigners[2]

\* The lifecycle state a view shows
Phase(t) ==
    IF t.txHash # NoHash THEN "Submitted"
    ELSE IF Len(t.pendingSigners) = 0 THEN "Executable"
    ELSE "Pending"

PhaseRank(t) ==
    CASE Phase(t) = "Pending" -> 1
      [] Phase(t) = "Executable" -> 2
      [] Phase(t) = "Submitted" -> 3

\* What a view may offer to a viewing address in each lifecycle state
OfferMatchesPhase ==
    \A t \in Views, a \in ViewerAddresses :
        /\ OfferedAction(t, a) \in {"view", "execute", "sign", "none"}
        /\ Phase(t) = "Pending" =>
             /\ OfferedAction(t, a) \in {"sign", "none"}
             /\ OfferedAction(t, a) = "sign" <=> Includes(t.pendingSigners, toLowerCase(a))
        /\ Phase(t) = "Executable" => OfferedAction(t, a) = "execute"
        /\ Phase(t) = "Submitted" => OfferedAction(t, a) = "view"

\* C9: a proposal is Pending, then Executable, then Submitted, one state at a
\* time and never backwards; Pending offers signing only, Executable offers
\* submission only, Submitted offers neither and is never left.
C9_Lifecycle ==
    [][ /\ OfferMatchesPhase /\ OfferMatchesPhase'
        /\ \A p \in Proposals :
             /\ PhaseRank(TransactionView(p)') >= PhaseRank(TransactionView(p))
             /\ PhaseRank(TransactionView(p)') <= PhaseRank(TransactionView(p)) + 1
      ]_vars

\* C9 witness: a Submitted proposal, and a client still holding the list it
\* loaded while the proposal was Executable
C9_Witness ==
    \E p \in Proposals, c \in Clients :
        /\ Phase(TransactionView(p)) = "Submitted"
        /\ p \in DOMAIN walletTxns[c]
        /\ Phase(walletTxns[c][p]) = "Executable"

\* No signer has two signatures recorded on one proposal
OneSignaturePerSigner ==
    \A p \in Proposals : \A i, j \in 1..Len(signatures[p]) :
        signatures[p][i].signerAddress = signatures[p][j].signerAddress => i = j

\* C5: at most one signature is ever recorded per proposal and signer; a
\* request for a pair that already has one is rejected with
\* DuplicateSignature, whatever bytes it carries, and changes no signature.
C5_DuplicateRejected ==
    [][ /\ OneSignaturePerSigner'
        /\ (event'.op = "sign"
              /\ toLowerCase(event'.addr) \in SignedBy(signatures[event'.tx]))
             => (event'.result = "DuplicateSignature" /\ signatures' = signatures)
      ]_vars

\* C5 witness: a second, different and valid signature of a signer who has
\* signed was rejected as a duplicate
C5_Witness ==
    /\ event.op = "sign"
    /\ event.result = "DuplicateSignature"
    /\ VerifySignature(event.tx, toLowerCase(event.addr), event.sig)
    /\ RecordedSignature(event.tx, toLowerCase(event.addr)) # event.sig

\* C6: a sign request from an address outside the wallet's signer set is
\* rejected with UnknownSigner and leaves the recorded signatures, hence the
\* pending signers, and the txHash of every proposal as they were.
C6_UnknownSignerRejected ==
    [][ (event'.op = "sign" /\ toLowerCase(event'.addr) \notin SignerSet)
          => /\ event'.result = "UnknownSigner"
             /\ signatures' = signatures
             /\ txHash' = txHash
             /\ \A p \in Proposals :
                  TransactionView(p)'.pendingSigners = TransactionView(p).pendingSigners
      ]_vars

\* C6 witness: an address that is no signer asked to sign a proposal that
\* still has pending signers, and was rejected
C6_Witness ==
    /\ event.op = "sign"
    /\ event.addr = "0xc"
    /\ event.result = "UnknownSigner"
    /\ Len(TransactionView(event.tx).pendingSigners) > 0

\* How many of a loaded transaction's signatures come from wallet signers
MatchedCount(t) ==
    Cardinality({i \in 1..Len(t.signatures) : t.signatures[i].signerAddress \in SignerSet})

\* C7: a sendTransaction call on a transaction whose matched signatures are
\* not as many as the wallet's signers fails with the incomplete-quorum
\* error, hands nothing to the bundler and changes neither a txHash nor the
\* deployed flag; a call that passes the test hands over a sequence holding
\* a signature of every signer of the wallet.
C7_IncompleteQuorum ==
    [][ \A c \in Clients :
          (event'.op = "send" /\ event'.client = c) =>
             LET t == walletTxns[c][event'.tx] IN
             IF MatchedCount(t) # Len(WalletSigners)
             THEN /\ event'.result = "IncompleteQuorum"
                  /\ pc'[c] = "idle" /\ req'[c] = req[c]
                  /\ txHash' = txHash /\ isDeployed' = isDeployed
             ELSE /\ event'.result = "handed"
                  /\ pc'[c] = "sending"
                  /\ \A s \in SignerSet :
                       \E i \in 1..Len(req'[c].orderedSignatures) :
                           VerifySignature(t.id, s, req'[c].orderedSignatures[i])
      ]_vars

\* C7 witness: sendTransaction was called on a transaction with one of two
\* signatures and failed
C7_Witness ==
    /\ event.op = "send"
    /\ event.result = "IncompleteQuorum"
    /\ Len(walletTxns[event.client][event.tx].signatures) = 1

====
